---- MODULE Spec2Model ----
(***************************************************************************)
(* Puzzle engine of the wordle-game repository (src/app.py): the daily     *)
(* word selector get_daily_word, the scoring and hard-mode check inside    *)
(* the /guess handler, and the session state machine spread over the       *)
(* handlers index, guess, toggle_hard_mode and profile.                    *)
(***************************************************************************)
EXTENDS Integers, Sequences, FiniteSets, TLC

VARIABLES
    ev,         \* one scoring run: [secret, guess, result]
    calls,      \* the get_daily_word calls in progress, one per request thread
    today,      \* date.today(), as a day number
    session,    \* the player's Flask session (signed cookie)
    users,      \* table users: username -> row or NoRow
    daily_word, \* table daily_word: (date, word_list) -> word or None
    game_logs,  \* table game_logs, in insertion order
    resp,       \* the response to the last request
    dbFailures, \* failed database connections so far
    posts,      \* forms posted to /profile so far
    cookie      \* a copy of the session cookie the client keeps to send again

vars == <<ev, calls, today, session, users, daily_word, game_logs, resp, dbFailures, posts,
         cookie>>

gameVars == <<today, session, users, daily_word, game_logs, resp, dbFailures, posts, cookie>>

----------------------------------------------------------------------------
(* Bounds of the model and constants of the program *)

NumLetters == 3         \* size of the alphabet the scoring inputs are drawn from
MaxDay == 2             \* calendar days a run spans
MaxDbFailures == 1      \* database connections that fail in a run
MaxPosts == 1           \* forms posted to /profile in a run
NumCallers == 2         \* requests that can be inside get_daily_word at once
WordLen == 5            \* the guess length the handler accepts
MaxGuesses == 6         \* guesses after which the game is lost

Alphabet == <<"A", "B", "C", "D", "E">>
Letters == {Alphabet[i] : i \in 1..NumLetters}
AllWords == [1..WordLen -> Letters]

----------------------------------------------------------------------------
(* Scoring, as written in guess() *)

Min(a, b) == IF a < b THEN a ELSE b

\* zip(guess, target) stops at the shorter of the two
ZipIdx(guess, target) == 1..Min(Len(guess), Len(target))

\* target_counts[letter], 0 for a letter not in the word (dict.get(letter, 0))
CountIn(word, letter) == Cardinality({i \in DOMAIN word : word[i] = letter})

LettersOf(word) == {word[i] : i \in DOMAIN word}

\* Faulty variant: green wherever the guessed letter occurs in the target at all
FirstPassAnywhere(guess, target) ==
    [i \in 1..WordLen |->
        IF i \in ZipIdx(guess, target) /\ guess[i] \in LettersOf(target)
        THEN "green" ELSE "gray"]

\* result after the first pass: green where the zipped letters agree
FirstPass(guess, target) ==
    [i \in 1..WordLen |->
        IF i \in ZipIdx(guess, target) /\ guess[i] = target[i]
        THEN "green" ELSE "gray"]

\* Faulty variant: the first pass forgets to count its green letters
GreenCountsZero(guess, target) == [x \in LettersOf(guess) |-> 0]

\* guess_counts after the first pass: one per green position of the letter
GreenCounts(guess, target) ==
    [x \in LettersOf(guess) |->
        Cardinality({i \in ZipIdx(guess, target) :
                        guess[i] = target[i] /\ guess[i] = x})]

AllGreen(guess, target) == \A i \in ZipIdx(guess, target) : guess[i] = target[i]

\* Faulty variant: off by one in the budget test
YellowHereLe(guess, target, result, guess_counts, i) ==
    /\ result[i] = "gray"
    /\ guess[i] \in LettersOf(target)
    /\ guess_counts[guess[i]] <= CountIn(target, guess[i])

\* the test of the second pass at position i
YellowHere(guess, target, result, guess_counts, i) ==
    /\ result[i] = "gray"
    /\ guess[i] \in LettersOf(target)
    /\ guess_counts[guess[i]] < CountIn(target, guess[i])

\* Faulty variant: the second pass scans the positions from the right
RECURSIVE SecondPassDown(_, _, _, _, _)
SecondPassDown(guess, target, result, guess_counts, i) ==
    IF i \notin ZipIdx(guess, target) THEN result
    ELSE IF YellowHere(guess, target, result, guess_counts, i)
         THEN SecondPassDown(guess, target,
                             [result EXCEPT ![i] = "yellow"],
                             [guess_counts EXCEPT ![guess[i]] = @ + 1], i - 1)
         ELSE SecondPassDown(guess, target, result, guess_counts, i - 1)

SecondPassFromRight(guess, target, result, guess_counts, i) ==
    SecondPassDown(guess, target, result, guess_counts,
                   Min(Len(guess), Len(target)))

RECURSIVE SecondPass(_, _, _, _, _)
SecondPass(guess, target, result, guess_counts, i) ==
    IF i \notin ZipIdx(guess, target) THEN result
    ELSE IF YellowHere(guess, target, result, guess_counts, i)
         THEN SecondPass(guess, target,
                         [result EXCEPT ![i] = "yellow"],
                         [guess_counts EXCEPT ![guess[i]] = @ + 1], i + 1)
         ELSE SecondPass(guess, target, result, guess_counts, i + 1)

\* Faulty variant: the first pass is skipped, every match is found by the
\* second pass
EvaluateOnePass(guess, target) ==
    SecondPass(guess, target, [i \in 1..WordLen |-> "gray"],
               [x \in LettersOf(guess) |-> 0], 1)

Evaluate(guess, target) ==
    IF AllGreen(guess, target)
    THEN FirstPass(guess, target)
    ELSE SecondPass(guess, target, FirstPass(guess, target),
                    GreenCounts(guess, target), 1)

----------------------------------------------------------------------------
(* Values and catalog *)

None == "None"          \* session.get(key) of a missing key
NoDate == 0             \* last_played_date missing or None
NoWord == <<>>          \* no row in daily_word for the key
NoText == <<>>          \* no share_text in the session

Days == 1..MaxDay
WordLists == {"words.txt", "words-pets.txt"}
Usernames == {"guest", "member"}

BREAD == <<"B", "R", "E", "A", "D">>
DREAM == <<"D", "R", "E", "A", "M">>
HORSE == <<"H", "O", "R", "S", "E">>
DOG == <<"D", "O", "G">>

\* the vocabularies loaded at start-up (a sample of each file's words)
WORDS_ALL == {BREAD, DREAM}
WORDS_PETS == {DOG, HORSE}

\* Faulty variant: the word-list of the request is ignored
AvailableWordsDefault(word_list) == WORDS_ALL

AvailableWords(word_list) ==
    IF word_list = "words.txt" THEN WORDS_ALL ELSE WORDS_PETS

\* str.upper() on the letters a request can carry
LowerCase == <<"a", "b", "d", "e", "r">>
UpperCase == <<"A", "B", "D", "E", "R">>
UpperChar(c) ==
    IF \E k \in DOMAIN LowerCase : LowerCase[k] = c
    THEN UpperCase[CHOOSE k \in DOMAIN LowerCase : LowerCase[k] = c]
    ELSE c
Upper(word) == [i \in DOMAIN word |-> UpperChar(word[i])]

\* the request bodies tried: catalog words, a lower-case spelling, a word
\* outside both lists, a word of the wrong length
GuessInputs ==
    WORDS_ALL \cup {HORSE, DOG, <<"b", "r", "e", "a", "d">>,
                    <<"Z", "Z", "Z", "Z", "Z">>}

----------------------------------------------------------------------------
(* Session and tables *)

EmptySession ==
    [username |-> None, user_type |-> None, word_list |-> None,
     has_guesses |-> FALSE, guesses |-> <<>>,
     game_over |-> FALSE, hard_mode |-> FALSE,
     last_played_date |-> NoDate, share_text |-> NoText]

\* session.get('user_type', 'Guest'), session.get('word_list', 'words.txt')
SessUserType(s) == IF s.user_type = None THEN "Guest" ELSE s.user_type
SessWordList(s) == IF s.word_list = None THEN "words.txt" ELSE s.word_list

\* the client holds no copy of a cookie
NoCookie == [kept |-> FALSE, sent |-> FALSE, session |-> EmptySession]

NoUser == [exists |-> FALSE, user_type |-> None, word_list |-> None]
UserRow(user_type, word_list) ==
    [exists |-> TRUE, user_type |-> user_type, word_list |-> word_list]

\* generate_username: a fresh guest name
GeneratedName == "guest"

\* the request threads that can be inside get_daily_word, and one at rest
Callers == 1..NumCallers

IdleCall ==
    [pc |-> "idle", date |-> NoDate, word_list |-> None, word |-> NoWord,
     ret |-> NoWord, reached |-> FALSE]

CallsIdle == [c \in Callers |-> IdleCall]

\* what a request leaves outside the session and the tables: the body of
\* its response (status, error, letter, guess, result, game_over, and shown,
\* the word its message spells), and target, the word get_daily_word handed
\* to it, and logging_error, whether it met "Database logging error"; the
\* handler prints these two to the server log and they are no part of the body
NoResp ==
    [op |-> "none", status |-> "ok", error |-> "none", letter |-> None,
     guess |-> NoWord, result |-> <<>>, game_over |-> FALSE, shown |-> NoWord,
     target |-> NoWord, logging_error |-> FALSE]

ErrorResp(op, error) == [NoResp EXCEPT !.op = op, !.status = "error", !.error = error]

----------------------------------------------------------------------------
(* get_daily_word, run without interleaving: ok is whether the connection  *)
(* works, pick is what random.choice returns                                *)

GetDailyWord(s, table, day, ok, pick) ==
    LET key == <<day, SessWordList(s)>>
    IN  IF ok
        THEN IF table[key] # NoWord
             THEN [word |-> table[key], table |-> table]
             ELSE [word |-> pick, table |-> [table EXCEPT ![key] = pick]]
        ELSE [word |-> pick, table |-> table]

----------------------------------------------------------------------------
(* Hard mode, as written in guess() *)

\* the (letter, colour) pairs of the session's records, in record order and
\* then position order
Pairs(history) ==
    [k \in 1..(Len(history) * WordLen) |->
        LET r == history[((k - 1) \div WordLen) + 1]
            i == ((k - 1) % WordLen) + 1
        IN  [letter |-> r.guess[i], color |-> r.result[i]]]

IsKnown(pair) == pair.color \in {"green", "yellow"}

\* the letters that enter known_letters, one entry per green or yellow mark
Revealed(history) ==
    LET known == SelectSeq(Pairs(history), IsKnown)
    IN  [k \in DOMAIN known |-> known[k].letter]

\* Faulty variant: a letter counts once however often it was revealed
KnownCountOnce(history, letter) ==
    IF \E k \in DOMAIN Revealed(history) : Revealed(history)[k] = letter
    THEN 1 ELSE 0

\* known_letters[letter]
KnownCount(history, letter) == CountIn(Revealed(history), letter)

\* Faulty variant: the check lets the pinned word of the day through
HardModeViolationPeek(history, guess) ==
    LET rev == Revealed(history)
        bad == {k \in DOMAIN rev : CountIn(guess, rev[k]) < KnownCount(history, rev[k])}
    IN  IF bad = {} \/ \E wl \in WordLists : guess = daily_word[<<today, wl>>]
        THEN None
        ELSE rev[CHOOSE k \in bad : \A j \in bad : k <= j]

\* Faulty variant: the loop runs on and reports the last lacking letter
HardModeViolationLast(history, guess) ==
    LET rev == Revealed(history)
        bad == {k \in DOMAIN rev : CountIn(guess, rev[k]) < KnownCount(history, rev[k])}
    IN  IF bad = {} THEN None
        ELSE rev[CHOOSE k \in bad : \A j \in bad : k >= j]

\* the letter the hard-mode loop rejects on (dict order is insertion order),
\* or None when the guess passes
HardModeViolation(history, guess) ==
    LET rev == Revealed(history)
        bad == {k \in DOMAIN rev : CountIn(guess, rev[k]) < KnownCount(history, rev[k])}
    IN  IF bad = {} THEN None
        ELSE rev[CHOOSE k \in bad : \A j \in bad : k <= j]

----------------------------------------------------------------------------
(* Share text, as written in guess() *)

Glyph(color) ==
    CASE color = "green" -> "green_square"
      [] color = "yellow" -> "yellow_square"
      [] color = "gray" -> "white_square"

GlyphLine(result) == [i \in DOMAIN result |-> Glyph(result[i])]

\* Faulty variant: the glyph line of the last record is missing
ShareTextStale(day, guesses) ==
    <<<<"Wurdle", day, Len(guesses), MaxGuesses>>>>
        \o [k \in 1..(Len(guesses) - 1) |-> GlyphLine(guesses[k].result)]

\* the lines of the text: "Wurdle <date> <n>/6", then one line per guess
ShareText(day, guesses) ==
    <<<<"Wurdle", day, Len(guesses), MaxGuesses>>>>
        \o [k \in DOMAIN guesses |-> GlyphLine(guesses[k].result)]

----------------------------------------------------------------------------
(* POST /guess *)

\* Faulty variant: the finished-session guards are missing
FinishedNever(s) == FALSE

\* both finished-session guards: the handler returns an error when game_over
Finished(s) == s.game_over

\* Faulty variant: the two finished-session guards answer each other's case
FinishedErrorSwapped(s, day) ==
    IF s.last_played_date = day THEN "game_is_over" ELSE "already_played"

\* the error the finished-session guards return
FinishedError(s, day) ==
    IF s.last_played_date = day THEN "already_played" ELSE "game_is_over"

\* Faulty variant: the loss is declared one record late
OutcomeLate(guess, target, n) ==
    IF guess = target THEN "win"
    ELSE IF n >= MaxGuesses + 1 THEN "lose"
    ELSE "none"

\* Faulty variant: the record count is tested before the match
OutcomeLossFirst(guess, target, n) ==
    IF n >= MaxGuesses THEN "lose"
    ELSE IF guess = target THEN "win"
    ELSE "none"

\* Faulty variant: the loss is declared at the 5th record
OutcomeEarlyLoss(guess, target, n) ==
    IF guess = target THEN "win"
    ELSE IF n >= MaxGuesses - 1 THEN "lose"
    ELSE "none"

\* the if/elif after the append: a match wins, otherwise the 6th record loses
Outcome(guess, target, n) ==
    IF guess = target THEN "win"
    ELSE IF n >= MaxGuesses THEN "lose"
    ELSE "none"

\* Faulty variant: every message spells the target
MessageAlways(outcome, target) == target

\* the word the response message names: the loss message spells the target
Message(outcome, target) == IF outcome = "lose" THEN target ELSE NoWord

\* Faulty variant: a rejected guess clears the hard-mode flag
SessionOnRejectEased(s) == [s EXCEPT !.hard_mode = FALSE]

\* the session a rejected guess leaves: the handler returns before it
\* touches the game keys
SessionOnReject(s) == s

\* Faulty variant: the game is closed one record early
AfterAppendEarlyLoss(s, day, guess, result, target) ==
    LET guesses == Append(s.guesses, [guess |-> guess, result |-> result])
    IN  IF guess = target \/ Len(guesses) >= MaxGuesses - 1
        THEN [s EXCEPT !.guesses = guesses, !.game_over = TRUE,
                       !.last_played_date = day]
        ELSE [s EXCEPT !.guesses = guesses]

\* the session after the guess record is appended and win/lose is decided
AfterAppend(s, day, guess, result, target) ==
    LET guesses == Append(s.guesses, [guess |-> guess, result |-> result])
    IN  IF Outcome(guess, target, Len(guesses)) # "none"
        THEN [s EXCEPT !.guesses = guesses, !.game_over = TRUE,
                       !.last_played_date = day]
        ELSE [s EXCEPT !.guesses = guesses]

\* Faulty variant: a failed outcome write fails the request
LoggingFailedAborts(r) ==
    [ErrorResp("guess", "database_error") EXCEPT !.logging_error = TRUE,
                                                 !.target = r.target]

\* the except branch of the logging block: the error is printed and the
\* handler goes on to its answer
LoggingFailed(r) == [r EXCEPT !.logging_error = TRUE]

\* the test that guards the game_logs insert
Logged(user_type) == user_type # "Guest"

\* the whole handler: what it leaves behind for the request body `input`,
\* the set `fails` of its connections that do not work (1: users lookup,
\* 2: get_daily_word, 3: outcome logging) and random.choice returning `pick`.
\* `used` is the set of connections the request opened.
GuessOutcome(input, fails, pick) ==
    LET username == IF session.username = None THEN GeneratedName ELSE session.username
        word_list == SessWordList(session)
        s1 == [session EXCEPT !.username = username]
        row == users[username]
        users1 == IF row.exists THEN users
                  ELSE [users EXCEPT ![username] = UserRow("Guest", word_list)]
        s2 == IF row.exists
              THEN [s1 EXCEPT !.user_type = row.user_type, !.word_list = row.word_list]
              ELSE s1
        base == [session |-> s1, users |-> users, daily_word |-> daily_word,
                 game_logs |-> game_logs, used |-> {1},
                 resp |-> ErrorResp("guess", "database_error")]
    IN  IF 1 \in fails THEN base
        ELSE IF Finished(s2)
        THEN [base EXCEPT !.session = s2, !.users = users1,
                          !.resp = ErrorResp("guess", FinishedError(s2, today))]
        ELSE
        LET guess == Upper(input)
            hard_mode == s2.hard_mode
            got == GetDailyWord(s2, daily_word, today, 2 \notin fails, pick)
            target == got.word
            available_words == AvailableWords(word_list)
            after == [base EXCEPT !.session = s2, !.users = users1,
                                  !.daily_word = got.table, !.used = {1, 2}]
            violation == HardModeViolation(s2.guesses, guess)
        IN  IF Len(guess) # WordLen \/ guess \notin available_words
            THEN [after EXCEPT !.session = SessionOnReject(s2),
                               !.resp = [ErrorResp("guess", "invalid_word")
                                            EXCEPT !.target = target]]
            ELSE IF hard_mode /\ violation # None
            THEN [after EXCEPT !.session = SessionOnReject(s2),
                               !.resp = [ErrorResp("guess", "hard_mode")
                                            EXCEPT !.letter = violation,
                                                   !.target = target]]
            ELSE IF ~s2.has_guesses
            THEN \* session['guesses'].append raises KeyError: the error handler answers
                 [after EXCEPT !.resp = [ErrorResp("guess", "server_error")
                                            EXCEPT !.status = "500",
                                                   !.target = target]]
            ELSE
            LET result == Evaluate(guess, target)
                s3 == AfterAppend(s2, today, guess, result, target)
                game_over == s3.game_over
                outcome == Outcome(guess, target, Len(s3.guesses))
                win == IF outcome = "win" THEN 1 ELSE 0
                ok3 == 3 \notin fails
                db_type == users1[username].user_type
                s4 == IF game_over /\ ok3 THEN [s3 EXCEPT !.user_type = db_type] ELSE s3
                logs == IF game_over /\ ok3 /\ Logged(db_type)
                        THEN Append(game_logs, [username |-> username, win |-> win,
                                                guesses |-> Len(s3.guesses)])
                        ELSE game_logs
                s5 == [s4 EXCEPT !.share_text = ShareText(today, s4.guesses)]
            IN  [after EXCEPT
                    !.session = s5,
                    !.game_logs = logs,
                    !.used = IF game_over THEN {1, 2, 3} ELSE {1, 2},
                    !.resp = LET r == [NoResp EXCEPT
                                         !.op = "guess",
                                         !.guess = guess,
                                         !.result = result,
                                         !.game_over = game_over,
                                         !.shown = Message(outcome, target),
                                         !.target = target]
                             IN  IF game_over /\ ~ok3 THEN LoggingFailed(r) ELSE r]

\* the connection failures a guess request can meet: the first one ends the
\* request, the other two are independent
FailSets == {{}, {1}, {2}, {3}, {2, 3}}

\* the word-list get_daily_word reads in a guess request: the session's,
\* after the users row has been copied into it
SelectorList ==
    LET username == IF session.username = None THEN GeneratedName ELSE session.username
    IN  IF users[username].exists THEN users[username].word_list
        ELSE SessWordList(session)

\* the values of random.choice that can matter to the request
Picks(fails) ==
    IF daily_word[<<today, SelectorList>>] # NoWord /\ 2 \notin fails
    THEN {daily_word[<<today, SelectorList>>]}
    ELSE AvailableWords(SelectorList)

Guess(input, fails, pick) ==
    /\ dbFailures + Cardinality(fails) <= MaxDbFailures
    /\ \E out \in {GuessOutcome(input, fails, pick)} :
        /\ fails \subseteq out.used
        /\ dbFailures' = dbFailures + Cardinality(fails)
        /\ session' = out.session
        /\ users' = out.users
        /\ daily_word' = out.daily_word
        /\ game_logs' = out.game_logs
        /\ resp' = out.resp
        /\ UNCHANGED <<ev, calls, cookie, today, posts>>

----------------------------------------------------------------------------
(* GET / *)

\* the reset test of index(): no guesses, or a last-played date that is not today
IndexResets(s, day) ==
    s.guesses = <<>> \/ (s.last_played_date # NoDate /\ s.last_played_date # day)

\* the session index() leaves behind; ok is whether its connection works
IndexSession(ok) ==
    LET last_played == session.last_played_date
        username == session.username
        s1 == [session EXCEPT
                  !.has_guesses = TRUE, !.guesses = <<>>,
                  !.game_over = FALSE, !.hard_mode = FALSE,
                  !.last_played_date = IF last_played = NoDate THEN today ELSE NoDate]
    IN  IF ~IndexResets(session, today) THEN session
        ELSE IF username = None THEN [s1 EXCEPT !.username = GeneratedName]
        ELSE IF ok /\ users[username].exists
             THEN [s1 EXCEPT !.user_type = users[username].user_type,
                             !.word_list = users[username].word_list]
             ELSE s1

Index(ok) ==
    /\ ok \/ (IndexResets(session, today) /\ session.username # None
                /\ dbFailures < MaxDbFailures)
    /\ dbFailures' = IF ok THEN dbFailures ELSE dbFailures + 1
    /\ \E s2 \in {IndexSession(ok)} :
        /\ session' = s2
        /\ resp' = [NoResp EXCEPT
                      !.op = "index", !.game_over = s2.game_over,
                      !.error = IF s2.username # None /\ s2.last_played_date = today
                                   /\ s2.game_over
                                THEN "game_blocked" ELSE "none"]
    /\ UNCHANGED <<ev, calls, cookie, today, users, daily_word, game_logs, posts>>

----------------------------------------------------------------------------
(* POST /toggle_hard_mode *)

ToggleHardMode ==
    /\ IF session.last_played_date = today
       THEN /\ resp' = ErrorResp("toggle_hard_mode", "already_played")
            /\ UNCHANGED session
       ELSE /\ session' = [session EXCEPT !.hard_mode = ~session.hard_mode]
            /\ resp' = [NoResp EXCEPT !.op = "toggle_hard_mode"]
    /\ UNCHANGED <<ev, calls, cookie, today, users, daily_word, game_logs, dbFailures, posts>>

----------------------------------------------------------------------------
(* /profile: the part every request runs, then the form that was posted *)

\* lines 333-355: a nameless session gets a name, a named one is refreshed
\* from its users row when the connection works
ProfilePrelude(ok) ==
    LET row == IF session.username = None THEN NoUser ELSE users[session.username]
        fetched == session.username # None /\ ok /\ row.exists
    IN  [s |-> IF session.username = None
               THEN [session EXCEPT !.username = GeneratedName]
               ELSE IF fetched
                    THEN [session EXCEPT !.user_type = row.user_type,
                                         !.word_list = row.word_list]
                    ELSE session,
         username |-> IF session.username = None THEN GeneratedName ELSE session.username,
         user_type |-> IF fetched THEN row.user_type ELSE SessUserType(session),
         word_list |-> SessWordList(session),
         usesDb |-> session.username # None]

\* the budget of failed connections, for a request that opens up to two
ProfileDb(pre, okPre, ok, usesSecond) ==
    LET failed == (IF pre.usesDb /\ ~okPre THEN 1 ELSE 0)
                  + (IF usesSecond /\ ~ok THEN 1 ELSE 0)
    IN  /\ okPre \/ pre.usesDb
        /\ ok \/ usesSecond
        /\ dbFailures + failed <= MaxDbFailures
        /\ dbFailures' = dbFailures + failed

\* a form is posted
Post ==
    /\ posts < MaxPosts
    /\ posts' = posts + 1

ProfileGet(okPre) ==
    \E pre \in {ProfilePrelude(okPre)} :
        /\ ProfileDb(pre, okPre, TRUE, FALSE)
        /\ session' = pre.s
        /\ resp' = [NoResp EXCEPT !.op = "profile"]
        /\ UNCHANGED <<ev, calls, cookie, today, users, daily_word, game_logs, posts>>

\* Faulty variant: the form clears the session and stores no empty history
ClearSessionBare(okPre) ==
    \E pre \in {ProfilePrelude(okPre)} :
        /\ Post
        /\ ProfileDb(pre, okPre, TRUE, FALSE)
        /\ session' = [EmptySession EXCEPT
                          !.username = pre.s.username,
                          !.user_type = pre.user_type,
                          !.word_list = pre.word_list]
        /\ resp' = [NoResp EXCEPT !.op = "clear_session"]
        /\ UNCHANGED <<ev, calls, cookie, today, users, daily_word, game_logs>>

\* the 'Clear Session' form
ClearSession(okPre) ==
    \E pre \in {ProfilePrelude(okPre)} :
        /\ Post
        /\ ProfileDb(pre, okPre, TRUE, FALSE)
        /\ session' = [EmptySession EXCEPT
                          !.username = pre.s.username,
                          !.user_type = pre.user_type,
                          !.word_list = pre.word_list,
                          !.has_guesses = TRUE]
        /\ resp' = [NoResp EXCEPT !.op = "clear_session"]
        /\ UNCHANGED <<ev, calls, cookie, today, users, daily_word, game_logs>>

\* the login form, for the registered name; pwOk is whether the password matches
Login(okPre, ok, pwOk) ==
    \E pre \in {ProfilePrelude(okPre)}, row \in {users["member"]} :
        /\ Post
        /\ ProfileDb(pre, okPre, ok, TRUE)
        /\ IF ok /\ row.exists /\ pwOk
           THEN /\ session' = [EmptySession EXCEPT
                                  !.username = "member",
                                  !.user_type = row.user_type,
                                  !.word_list = row.word_list]
                /\ resp' = [NoResp EXCEPT !.op = "login"]
           ELSE /\ session' = pre.s
                /\ resp' = ErrorResp("login", IF ok THEN "invalid_login" ELSE "database_error")
        /\ UNCHANGED <<ev, calls, cookie, today, users, daily_word, game_logs>>

\* the registration form, for the name "member"
Register(okPre, ok) ==
    \E pre \in {ProfilePrelude(okPre)} :
        /\ Post
        /\ ProfileDb(pre, okPre, ok, TRUE)
        /\ IF ok /\ ~users["member"].exists
           THEN /\ users' = [users EXCEPT !["member"] = UserRow("Member", "words.txt")]
                /\ session' = [EmptySession EXCEPT
                                  !.username = "member",
                                  !.user_type = "Member",
                                  !.word_list = "words.txt"]
                /\ resp' = [NoResp EXCEPT !.op = "register"]
           ELSE /\ users' = users
                /\ session' = pre.s
                /\ resp' = ErrorResp("register", IF ok THEN "username_taken" ELSE "database_error")
        /\ UNCHANGED <<ev, calls, cookie, today, daily_word, game_logs>>

\* the word-list form
ChangeWordList(okPre, ok, new_word_list) ==
    \E pre \in {ProfilePrelude(okPre)} :
        /\ Post
        /\ ProfileDb(pre, okPre, ok, TRUE)
        /\ IF ok
           THEN /\ users' = IF users[pre.username].exists
                            THEN [users EXCEPT ![pre.username].word_list = new_word_list]
                            ELSE users
                /\ session' = [pre.s EXCEPT
                                  !.word_list = new_word_list,
                                  !.has_guesses = TRUE, !.guesses = <<>>,
                                  !.game_over = FALSE,
                                  !.last_played_date = NoDate]
                /\ resp' = [NoResp EXCEPT !.op = "change_word_list"]
           ELSE /\ users' = users
                /\ session' = pre.s
                /\ resp' = ErrorResp("change_word_list", "database_error")
        /\ UNCHANGED <<ev, calls, cookie, today, daily_word, game_logs>>

----------------------------------------------------------------------------
(* Environment: the calendar and the process *)

\* midnight passes
Tick ==
    /\ today < MaxDay
    /\ today' = today + 1
    /\ UNCHANGED <<ev, calls, cookie, session, users, daily_word, game_logs, resp, dbFailures, posts>>

EmptyDailyWord == [key \in Days \X WordLists |-> NoWord]

\* what init_db leaves of daily_word: DROP TABLE, then CREATE TABLE
InitDbDailyWord(table) == EmptyDailyWord

----------------------------------------------------------------------------
(* The game specification: one player's session against the tables *)

EvIdle == [secret |-> <<>>, guess |-> <<>>, result |-> <<>>]

GameInit ==
    /\ today = 1
    /\ session = EmptySession
    /\ users = [u \in Usernames |-> NoUser]
    /\ daily_word = EmptyDailyWord
    /\ game_logs = <<>>
    /\ resp = NoResp
    /\ dbFailures = 0
    /\ posts = 0
    /\ cookie = NoCookie

\* the game at rest, for the specifications that do not run it
GameIdle == GameInit

Init == ev = EvIdle /\ calls = CallsIdle /\ GameInit

Next ==
    \/ \E input \in GuessInputs, fails \in FailSets :
          \E pick \in Picks(fails) : Guess(input, fails, pick)
    \/ \E ok \in BOOLEAN : Index(ok)
    \/ ToggleHardMode
    \/ \E okPre \in BOOLEAN : ProfileGet(okPre)
    \/ \E okPre \in BOOLEAN : ClearSession(okPre)
    \/ \E okPre, ok, pwOk \in BOOLEAN : Login(okPre, ok, pwOk)
    \/ \E okPre, ok \in BOOLEAN : Register(okPre, ok)
    \/ \E okPre, ok \in BOOLEAN, wl \in WordLists : ChangeWordList(okPre, ok, wl)
    \/ Tick

Spec == Init /\ [][Next]_vars

----------------------------------------------------------------------------
(* get_daily_word, statement by statement, for requests that overlap *)

\* lines 144-149: the date and the word-list are read and the connection is
\* opened; when it cannot be, the except branch returns random.choice
Connect(c, word_list, ok, pick) ==
    /\ calls[c].pc \in {"idle", "done"}
    /\ pick \in AvailableWords(word_list)
    /\ calls' = [calls EXCEPT ![c] =
                    IF ok
                    THEN [IdleCall EXCEPT !.pc = "select", !.date = today,
                                          !.word_list = word_list, !.reached = TRUE]
                    ELSE [IdleCall EXCEPT !.pc = "done", !.date = today,
                                          !.word_list = word_list, !.ret = pick]]
    /\ UNCHANGED <<ev, gameVars>>

\* lines 151-158: the SELECT; a found row is returned, otherwise a word is drawn
Select(c, pick) ==
    /\ calls[c].pc = "select"
    /\ pick \in AvailableWords(calls[c].word_list)
    /\ LET found == daily_word[<<calls[c].date, calls[c].word_list>>]
       IN  calls' = [calls EXCEPT ![c] =
                        IF found # NoWord
                        THEN [@ EXCEPT !.pc = "done", !.ret = found]
                        ELSE [@ EXCEPT !.pc = "insert", !.word = pick]]
    /\ UNCHANGED <<ev, gameVars>>

\* the word returned when the INSERT hits the primary key: the unique
\* violation is a psycopg.Error, and the except branch draws a word again
AfterConflict(found, pick) == pick

\* lines 159-165: the INSERT and the commit
Insert(c, pick) ==
    /\ calls[c].pc = "insert"
    /\ pick \in AvailableWords(calls[c].word_list)
    /\ LET key == <<calls[c].date, calls[c].word_list>>
       IN  IF daily_word[key] = NoWord
           THEN /\ daily_word' = [daily_word EXCEPT ![key] = calls[c].word]
                /\ calls' = [calls EXCEPT ![c] = [@ EXCEPT !.pc = "done", !.ret = calls[c].word]]
           ELSE /\ daily_word' = daily_word
                /\ calls' = [calls EXCEPT ![c] =
                                [@ EXCEPT !.pc = "done",
                                          !.ret = AfterConflict(daily_word[key], pick)]]
    /\ UNCHANGED <<ev, cookie, today, session, users, game_logs, resp, dbFailures, posts>>

\* the application starts again and runs init_db; the requests in progress
\* end with the old process
InitDb ==
    /\ daily_word' = InitDbDailyWord(daily_word)
    /\ calls' = CallsIdle
    /\ UNCHANGED <<ev, cookie, today, session, users, game_logs, resp, dbFailures, posts>>

\* midnight passes
DailyTick ==
    /\ today < MaxDay
    /\ today' = today + 1
    /\ UNCHANGED <<ev, calls, cookie, session, users, daily_word, game_logs, resp, dbFailures, posts>>

DailyInit == ev = EvIdle /\ calls = CallsIdle /\ GameInit

DailyNext ==
    \/ \E c \in Callers, wl \in WordLists, ok \in BOOLEAN,
          pick \in WORDS_ALL \cup WORDS_PETS : Connect(c, wl, ok, pick)
    \/ \E c \in Callers, pick \in WORDS_ALL \cup WORDS_PETS : Select(c, pick)
    \/ \E c \in Callers, pick \in WORDS_ALL \cup WORDS_PETS : Insert(c, pick)
    \/ InitDb
    \/ DailyTick

SpecDaily == DailyInit /\ [][DailyNext]_vars

----------------------------------------------------------------------------
(* Scoring specification: every pair of words over the alphabet is scored *)

NotScored == <<>>

CRANE == <<"C", "R", "A", "N", "E">>
TRACE == <<"T", "R", "A", "C", "E">>

\* the pairs scored: every pair over the alphabet and the pairs of two
\* catalog words that share letters at equal and at different positions
EvalWords == AllWords \cup {CRANE, TRACE}

EvalInit ==
    /\ \E s \in EvalWords, g \in EvalWords :
        ev = [secret |-> s, guess |-> g, result |-> NotScored]
    /\ calls = CallsIdle
    /\ GameIdle

Score ==
    /\ ev.result = NotScored
    /\ ev' = [ev EXCEPT !.result = Evaluate(ev.guess, ev.secret)]
    /\ UNCHANGED <<calls, gameVars>>

EvalNext == Score

SpecEval == EvalInit /\ [][EvalNext]_vars

----------------------------------------------------------------------------
(* The two-pass reference scoring of the design, used to state C5 *)

VerdictOf(color) ==
    CASE color = "green" -> "correct"
      [] color = "yellow" -> "present"
      [] color = "gray" -> "absent"

Verdicts(result) == [i \in DOMAIN result |-> VerdictOf(result[i])]

\* the letter budget left after pass 1 has taken the exact matches
RefBudget(secret, guess) ==
    [x \in LettersOf(secret) \cup LettersOf(guess) |->
        CountIn(secret, x)
          - Cardinality({i \in DOMAIN guess : guess[i] = secret[i] /\ guess[i] = x})]

RECURSIVE RefPass2(_, _, _, _)
RefPass2(secret, guess, i, budget) ==
    IF i > Len(guess) THEN <<>>
    ELSE IF guess[i] = secret[i]
         THEN <<"correct">> \o RefPass2(secret, guess, i + 1, budget)
         ELSE IF budget[guess[i]] > 0
              THEN <<"present">> \o
                   RefPass2(secret, guess, i + 1,
                            [budget EXCEPT ![guess[i]] = @ - 1])
              ELSE <<"absent">> \o RefPass2(secret, guess, i + 1, budget)

RefEvaluate(secret, guess) == RefPass2(secret, guess, 1, RefBudget(secret, guess))

Scored == ev.result # NotScored

\* positions of the guess that hold letter x and are marked green or yellow
Marked(x) == {i \in DOMAIN ev.guess : ev.guess[i] = x /\ ev.result[i] # "gray"}

Leftmost(S) == CHOOSE i \in S : \A j \in S : i <= j

----------------------------------------------------------------------------
(* Claims about scoring, checked under SpecEval *)

\* C5: the verdict the handler computes equals the two-pass reference
\* algorithm (exact matches first, then left-to-right present marks while the
\* letter's remaining budget is positive).
C5_MatchesReference ==
    Scored => Verdicts(ev.result) = RefEvaluate(ev.secret, ev.guess)

\* a scored pair where the budget of a letter ran out: one occurrence is
\* yellow and a later occurrence of the same letter is gray
C5_Witness ==
    /\ Scored
    /\ \E i, j \in 1..WordLen :
          /\ i < j
          /\ ev.guess[i] = ev.guess[j]
          /\ ev.result[i] = "yellow"
          /\ ev.result[j] = "gray"
          /\ ev.guess[j] \in LettersOf(ev.secret)

\* C6: for every letter X the number of green or yellow positions of the
\* guess that hold X never exceeds the number of X in the secret.
C6_MarksWithinBudget ==
    Scored => \A x \in Letters : Cardinality(Marked(x)) <= CountIn(ev.secret, x)

\* a scored pair whose guess holds a letter of the secret more often than
\* the secret does, with that letter's budget fully used
C6_Witness ==
    /\ Scored
    /\ \E x \in Letters :
          /\ CountIn(ev.secret, x) > 0
          /\ CountIn(ev.guess, x) > CountIn(ev.secret, x)
          /\ Cardinality(Marked(x)) = CountIn(ev.secret, x)

\* C7: position i is green exactly when guess[i] = secret[i]; the secret
\* scored against itself is green everywhere.
C7_CorrectIffEqual ==
    Scored =>
        /\ \A i \in 1..WordLen : (ev.result[i] = "green") <=> (ev.guess[i] = ev.secret[i])
        /\ (ev.guess = ev.secret => \A i \in 1..WordLen : ev.result[i] = "green")

\* the secret scored against itself
C7_Witness ==
    /\ Scored
    /\ ev.guess = ev.secret
    /\ \A i \in 1..WordLen : ev.result[i] = "green"

\* C8: when the guess holds X two or more times and the secret holds X
\* exactly once, exactly one X of the guess is marked; it is the one at the
\* secret's X position if the guess has X there, otherwise the leftmost X.
C8_DoubledLetter ==
    Scored =>
        \A x \in Letters :
            (CountIn(ev.guess, x) >= 2 /\ CountIn(ev.secret, x) = 1) =>
                LET p == CHOOSE i \in DOMAIN ev.secret : ev.secret[i] = x
                    xs == {i \in DOMAIN ev.guess : ev.guess[i] = x}
                IN  /\ Cardinality(Marked(x)) = 1
                    /\ Marked(x) = IF p \in xs THEN {p} ELSE {Leftmost(xs)}

\* a doubled letter with no exact match: the leftmost one is yellow, the
\* other gray
C8_Witness ==
    /\ Scored
    /\ \E x \in Letters :
          /\ CountIn(ev.guess, x) >= 2
          /\ CountIn(ev.secret, x) = 1
          /\ \A i \in 1..WordLen : ~(ev.guess[i] = x /\ ev.secret[i] = x)
          /\ \E i \in Marked(x) : ev.result[i] = "yellow"

----------------------------------------------------------------------------
(* Claims about the daily word, checked under SpecDaily *)

\* the call of caller c returns in this step
Returns(c) == calls[c].pc # "done" /\ calls'[c].pc = "done"

KeyOf(call) == <<call.date, call.word_list>>

\* C1: every get_daily_word call that reaches the store returns the word
\* stored in daily_word for its (date, word-list), also when its SELECT and
\* INSERT interleave with another call's; the loser of the first-write race
\* adopts the winner's word.
C1_ReturnsPinnedWord ==
    [][\A c \in Callers :
          (Returns(c) /\ calls'[c].reached) =>
              calls'[c].ret = daily_word'[KeyOf(calls'[c])]]_vars

\* a call that lost the race has returned: the row was written by another
\* call while this one was between its SELECT and its INSERT
C1_Witness ==
    \E c \in Callers :
        /\ calls[c].pc = "done"
        /\ calls[c].reached
        /\ calls[c].word # NoWord
        /\ daily_word[KeyOf(calls[c])] # NoWord
        /\ daily_word[KeyOf(calls[c])] # calls[c].word

\* C2: a row of daily_word, once written, is never changed or removed by
\* any later operation, start-up included (a key holds one word at most by
\* the shape of the table).
C2_PinNeverChanges ==
    [][\A key \in DOMAIN daily_word :
          daily_word[key] # NoWord => daily_word'[key] = daily_word[key]]_vars

----------------------------------------------------------------------------
(* Claims about the session, checked under Spec *)

\* a step that serves a guess request: only requests write resp, and every
\* request writes its own op
GuessStep == resp'.op = "guess" /\ today' = today

ToggleStep == resp'.op = "toggle_hard_mode" /\ today' = today

\* C3: a guess request on a terminal session returns an error, appends no
\* record, scores nothing and writes no outcome record.
C3_TerminalRejects ==
    [][(session.game_over /\ GuessStep) =>
          /\ resp'.status = "error"
          /\ resp'.result = <<>>
          /\ session'.guesses = session.guesses
          /\ session'.game_over
          /\ game_logs' = game_logs]_vars

\* a finished session has answered a guess with a finished-session error
C3_Witness ==
    /\ session.game_over
    /\ resp.op = "guess"
    /\ resp.error \in {"already_played", "game_is_over"}
    /\ Len(session.guesses) >= 1

\* C4: with the store reachable, a guess request writes one outcome record
\* when it makes the session Won or Lost, whatever the account type, and
\* none otherwise.
C4_OneOutcomePerFinish ==
    [][(GuessStep /\ dbFailures' = dbFailures) =>
          Len(game_logs') = Len(game_logs)
              + (IF ~session.game_over /\ session'.game_over THEN 1 ELSE 0)]_vars

\* a Guest's game has finished and the outcome log is empty
C4_Witness ==
    /\ session.game_over
    /\ session.username = "guest"
    /\ dbFailures = 0
    /\ game_logs = <<>>

\* k(X) of the claim: the green and yellow marks on letter x, summed over
\* the records of the history
RequiredCount(history, x) ==
    Cardinality({p \in (DOMAIN history) \X (1..WordLen) :
                    /\ history[p[1]].guess[p[2]] = x
                    /\ history[p[1]].result[p[2]] \in {"green", "yellow"}})

RequiredLetters(history) ==
    UNION {LettersOf(history[r].guess) : r \in DOMAIN history}

\* the candidate has fewer x than the history requires
Lacks(history, cand, x) == CountIn(cand, x) < RequiredCount(history, x)

\* C9: in hard mode a valid candidate that holds some letter X fewer than
\* k(X) times is rejected with an error citing such a letter and is not
\* appended; a candidate that meets k(X) for every X is not rejected by the
\* hard-mode check.
C9_HardModeCounts ==
    \A input \in GuessInputs :
        \A out \in {GuessOutcome(input, {}, CHOOSE w \in Picks({}) : TRUE)} :
            LET cand == Upper(input)
                history == session.guesses
            IN  ( /\ session.hard_mode
                  /\ ~session.game_over
                  /\ Len(cand) = WordLen
                  /\ cand \in AvailableWords(SessWordList(session)) )
                =>
                IF \E x \in RequiredLetters(history) : Lacks(history, cand, x)
                THEN /\ out.resp.error = "hard_mode"
                     /\ out.resp.letter \in RequiredLetters(history)
                     /\ Lacks(history, cand, out.resp.letter)
                     /\ out.session.guesses = history
                ELSE out.resp.error # "hard_mode"

\* a guess was rejected for a letter that two earlier guesses revealed: the
\* counts of the two records add up
C9_Witness ==
    /\ session.hard_mode
    /\ resp.op = "guess"
    /\ resp.error = "hard_mode"
    /\ RequiredCount(session.guesses, resp.letter) >= 2
    /\ \A r \in DOMAIN session.guesses :
          CountIn(session.guesses[r].guess, resp.letter) <= 1

\* C10: after GET / and guess requests alone (no profile form posted, first
\* day), a toggle request on a session that holds a guess or is finished is
\* rejected and leaves the hard-mode flag as it was.
C10_NoToggleMidGame ==
    [][(ToggleStep /\ today = 1 /\ posts = 0
          /\ (session.guesses # <<>> \/ session.game_over)) =>
          /\ resp'.status = "error"
          /\ session'.hard_mode = session.hard_mode]_vars

\* the flag was flipped on a session that holds a guess recorded today
C10_Witness ==
    /\ today = 1
    /\ posts = 0
    /\ resp.op = "toggle_hard_mode"
    /\ resp.status = "ok"
    /\ session.guesses # <<>>

----------------------------------------------------------------------------
(* Claims about the life of a session, checked under Spec *)

IndexStep == resp'.op = "index" /\ today' = today

Catalog == WORDS_ALL \cup WORDS_PETS

\* every record of the history carries the verdict of its guess against T
ScoredAgainst(history, T) ==
    \A k \in DOMAIN history : history[k].result = Evaluate(history[k].guess, T)

\* C11: the guesses a session records between two resets, on one day and
\* with one word-list (first day, no profile form posted), are all scored
\* against one and the same secret word, also when the store is unreachable
\* for some of the requests.
C11_OneSecretPerSession ==
    (today = 1 /\ posts = 0) => \E T \in Catalog : ScoredAgainst(session.guesses, T)

\* C12: a session finished today stops being finished, within the day, only
\* through the 'Clear Session' form; no other request clears game_over.
C12_OnlyReplayReopens ==
    [][(/\ session.game_over
        /\ session.last_played_date = today
        /\ today' = today
        /\ ~session'.game_over) => resp'.op = "clear_session"]_vars

\* no guess request has got as far as get_daily_word today: a call that
\* reaches the store pins a row for today, and one that does not is counted
\* in dbFailures
NoGuessToday ==
    /\ dbFailures = 0
    /\ \A wl \in WordLists : daily_word[<<today, wl>>] = NoWord

\* C13: GET / served on a day later than the day of the session's recorded
\* guesses leaves a fresh session (no guesses, not terminal), for an
\* in-progress session as well as a finished one.
C13_RolloverResets ==
    [][(IndexStep /\ dbFailures' = 0 /\ NoGuessToday /\ session.guesses # <<>>) =>
          /\ session'.guesses = <<>>
          /\ ~session'.game_over]_vars

----------------------------------------------------------------------------
(* Claims about what one guess request does, checked under Spec *)

\* the guess request of this step was accepted: a record was appended and a
\* verdict returned
AcceptedStep == GuessStep /\ resp'.status = "ok"

AllGreenResult(result) == \A i \in DOMAIN result : result[i] = "green"

LastOf(seq) == seq[Len(seq)]

\* C14: an accepted guess equal to the secret, compared after upper-casing,
\* makes the session Won (terminal, win recorded when an outcome is logged,
\* no loss message) and the response reports game_over, also when it is the
\* 6th record.
C14_MatchWins ==
    [][(AcceptedStep /\ resp'.guess = resp'.target) =>
          /\ session'.guesses = Append(session.guesses,
                                       [guess |-> resp'.guess, result |-> resp'.result])
          /\ session'.game_over
          /\ resp'.game_over
          /\ resp'.shown = NoWord
          /\ game_logs' # game_logs => LastOf(game_logs').win = 1]_vars

\* the 6th guess matched: the session is finished with six records, the last
\* one the secret itself, and the response carries no loss message
C14_Witness ==
    /\ resp.op = "guess"
    /\ resp.guess = resp.target
    /\ resp.game_over
    /\ session.game_over
    /\ Len(session.guesses) = MaxGuesses
    /\ LastOf(session.guesses).guess = resp.target
    /\ resp.shown = NoWord

\* C15: an accepted guess different from the secret leaves the session in
\* progress when fewer than 6 records are held after it, and makes it Lost
\* (terminal, loss message, loss recorded when an outcome is logged) exactly
\* when it is the 6th record.
C15_MissLosesAtSix ==
    [][(AcceptedStep /\ resp'.guess # resp'.target) =>
          LET n == Len(session'.guesses)
          IN  /\ session'.guesses = Append(session.guesses,
                                           [guess |-> resp'.guess, result |-> resp'.result])
              /\ session'.game_over <=> (n = MaxGuesses)
              /\ resp'.game_over = session'.game_over
              /\ resp'.shown = IF n = MaxGuesses THEN resp'.target ELSE NoWord
              /\ game_logs' # game_logs =>
                    /\ n = MaxGuesses
                    /\ LastOf(game_logs').win = 0]_vars

\* the 6th guess missed: the session is finished with six records and the
\* response spells the word
C15_Witness ==
    /\ resp.op = "guess"
    /\ resp.guess # resp.target
    /\ resp.game_over
    /\ session.game_over
    /\ Len(session.guesses) = MaxGuesses
    /\ resp.shown = resp.target

----------------------------------------------------------------------------
(* Claims about the shape of the session, checked under Spec *)

Colors == {"green", "yellow", "gray"}

\* C16: the history holds 0 to 6 records, each a 5-letter guess with a
\* 5-element verdict over the three colours, and the session is terminal
\* exactly when its last record matched the word it was scored against (its
\* verdict is green throughout, C7) or the history holds 6 records.
C16_HistoryShape ==
    /\ Len(session.guesses) \in 0..MaxGuesses
    /\ \A k \in DOMAIN session.guesses :
          /\ Len(session.guesses[k].guess) = WordLen
          /\ session.guesses[k].result \in [1..WordLen -> Colors]
    /\ session.game_over <=>
          \/ Len(session.guesses) = MaxGuesses
          \/ /\ session.guesses # <<>>
             /\ AllGreenResult(LastOf(session.guesses).result)

\* a game won before the last attempt: finished, with 2 to 5 records
C16_Witness ==
    /\ session.game_over
    /\ Len(session.guesses) \in 2..(MaxGuesses - 1)
    /\ AllGreenResult(LastOf(session.guesses).result)
    /\ \A k \in 1..(Len(session.guesses) - 1) :
          ~AllGreenResult(session.guesses[k].result)

----------------------------------------------------------------------------
(* Claims about the share text, checked under Spec *)

\* the step that makes the session Won or Lost
FinishStep == ~session.game_over /\ session'.game_over

GlyphSet == {"green_square", "yellow_square", "white_square"}

\* the encodings that give each verdict a glyph of its own
Encodings == {f \in [Colors -> GlyphSet] : \A a, b \in Colors : f[a] = f[b] => a = b}

IsHeaderLine(line, day, n) ==
    Len(line) = 4 /\ line = <<"Wurdle", day, n, MaxGuesses>>

IsGlyphLine(line, result, f) ==
    Len(line) = WordLen /\ \A i \in 1..WordLen : line[i] = f[result[i]]

\* the text without its line h
Without(text, h) ==
    [k \in 1..(Len(text) - 1) |-> IF k < h THEN text[k] ELSE text[k + 1]]

\* lines k = 1..n are the glyph lines of records 1..n, in that order
GlyphLinesInOrder(lines, guesses, f) ==
    \A k \in DOMAIN guesses : IsGlyphLine(lines[k], guesses[k].result, f)

\* C17: when a session becomes Won or Lost its share text has one header
\* line, carrying today's date and guessCount/6, and guessCount glyph lines,
\* the i-th encoding the verdict of the i-th record with one glyph per
\* verdict.
C17_ShareTextShape ==
    [][FinishStep =>
          LET text == session'.share_text
              guesses == session'.guesses
          IN  /\ Len(text) = Len(guesses) + 1
              /\ \E h \in DOMAIN text, f \in Encodings :
                    /\ IsHeaderLine(text[h], today', Len(guesses))
                    /\ GlyphLinesInOrder(Without(text, h), guesses, f)]_vars

\* a game finished with several records, and the text the request left
C17_Witness ==
    /\ resp.op = "guess"
    /\ resp.game_over
    /\ session.game_over
    /\ Len(session.guesses) >= 2
    /\ Len(session.share_text) = Len(session.guesses) + 1

\* C18: in the share text of a finished game the glyph lines come first, in
\* guess-submission order, and the header is the last line.
C18_HeaderLast ==
    [][FinishStep =>
          LET text == session'.share_text
              guesses == session'.guesses
          IN  /\ Len(text) = Len(guesses) + 1
              /\ IsHeaderLine(text[Len(text)], today', Len(guesses))
              /\ \E f \in Encodings : GlyphLinesInOrder(text, guesses, f)]_vars

----------------------------------------------------------------------------
(* Claims about responses and rejections, checked under Spec *)

\* the words a response body spells: the echo of the guess and the word of
\* its message (verdict colours, glyphs and the hard-mode letter are no words)
BodyWords(r) == {r.guess, r.shown} \ {NoWord}

\* C19: a guess, toggle or GET / request served while the session is, and
\* after it remains, non-terminal spells the secret nowhere in its response
\* body, success or error: a guess response spells at most the guess, which
\* is not the word it was scored against, and the other two spell no word.
C19_NoLeakBeforeTerminal ==
    [][(~session.game_over /\ ~session'.game_over) =>
          /\ GuessStep => resp'.target \notin BodyWords(resp')
          /\ (ToggleStep \/ IndexStep) => BodyWords(resp') = {}]_vars

\* a non-winning guess was accepted on a session in progress: the request
\* held the secret and the body spells the guess alone
C19_Witness ==
    /\ resp.op = "guess"
    /\ resp.status = "ok"
    /\ ~session.game_over
    /\ resp.target # NoWord
    /\ BodyWords(resp) = {resp.guess}
    /\ resp.guess # resp.target

RejectionErrors == {"invalid_word", "hard_mode"}

\* C20: a guess rejected for its length, for not being in the word-list or
\* for a hard-mode letter returns an error and leaves the history, the
\* terminal flag, the hard-mode flag, the last-played date, the share text
\* and the outcome log as they were.
C20_RejectionKeepsState ==
    [][(GuessStep /\ resp'.error \in RejectionErrors) =>
          /\ resp'.status = "error"
          /\ resp'.result = <<>>
          /\ session'.guesses = session.guesses
          /\ session'.has_guesses = session.has_guesses
          /\ session'.game_over = session.game_over
          /\ session'.hard_mode = session.hard_mode
          /\ session'.last_played_date = session.last_played_date
          /\ session'.share_text = session.share_text
          /\ game_logs' = game_logs]_vars

\* a word outside the list was rejected in the middle of a hard-mode game
C20_Witness ==
    /\ resp.op = "guess"
    /\ resp.error = "invalid_word"
    /\ session.hard_mode
    /\ session.guesses # <<>>
    /\ ~session.game_over

----------------------------------------------------------------------------
(* Claims about the selector when the store fails, checked under SpecDaily *)

\* the catalog of a word-list, as the start-up code fills it
CatalogOf(word_list) ==
    IF word_list = "words.txt" THEN {BREAD, DREAM} ELSE {DOG, HORSE}

\* C21: a get_daily_word call always returns a word of the catalog of the
\* word-list it was asked for, and a call that cannot reach the store still
\* returns one and pins nothing.
C21_DegradesToCatalogWord ==
    [][\A c \in Callers :
          Returns(c) =>
              /\ calls'[c].ret \in CatalogOf(calls'[c].word_list)
              /\ ~calls'[c].reached => daily_word' = daily_word]_vars

\* a call that could not connect has returned a word and its key has no row
C21_Witness ==
    \E c \in Callers :
        /\ calls[c].pc = "done"
        /\ ~calls[c].reached
        /\ calls[c].ret \in CatalogOf(calls[c].word_list)
        /\ daily_word[KeyOf(calls[c])] = NoWord

----------------------------------------------------------------------------
(* Claims about the outcome write, checked under Spec *)

\* the guess request of this step met a failure of its outcome write
LogFailStep == GuessStep /\ resp'.logging_error

\* C22: when the outcome write of a terminal transition fails, the guess is
\* not failed: the response carries the verdict and game_over true, the
\* guess is recorded and the session is terminal.
C22_LogFailureKeepsResult ==
    [][LogFailStep =>
          /\ resp'.status = "ok"
          /\ resp'.result \in [1..WordLen -> Colors]
          /\ resp'.game_over
          /\ session'.guesses = Append(session.guesses,
                                       [guess |-> resp'.guess, result |-> resp'.result])
          /\ session'.game_over
          /\ session'.share_text # NoText
          /\ game_logs' = game_logs]_vars

\* a registered player finished a game while the outcome write failed
C22_Witness ==
    /\ resp.op = "guess"
    /\ resp.logging_error
    /\ resp.game_over
    /\ session.username = "member"
    /\ session.game_over
    /\ game_logs = <<>>

----------------------------------------------------------------------------
(* The game with a client that keeps sending requests: some request is     *)
(* served whenever one can change the state. The program has no thread or  *)
(* timer of its own, so nothing else is scheduled.                         *)

SpecRetry == Init /\ [][Next]_vars /\ WF_vars(Next)

\* a registered player's game has finished and its outcome write failed
OutcomeWriteFailed ==
    /\ resp.op = "guess"
    /\ resp.logging_error
    /\ session.game_over
    /\ session.username = "member"

OutcomeLogged ==
    \E k \in DOMAIN game_logs : game_logs[k].username = "member"

\* C23: an outcome whose write failed at the terminal transition is retried
\* or queued: with requests served again, the outcome log eventually holds
\* the record of the finished game.
C23_FailedOutcomeRetried == OutcomeWriteFailed ~> OutcomeLogged

----------------------------------------------------------------------------
(* The game with a client that sends a session cookie twice. The session   *)
(* is Flask's default: a signed cookie the client holds, which the server  *)
(* reads from each request and keeps no record of.                         *)

\* the client keeps a copy of the cookie it holds
Keep ==
    /\ ~cookie.kept
    /\ cookie' = [cookie EXCEPT !.kept = TRUE, !.session = session]
    /\ UNCHANGED <<ev, calls, today, session, users, daily_word, game_logs, resp,
                   dbFailures, posts>>

\* the next request of the client carries the copy it kept, once
Resend ==
    /\ cookie.kept
    /\ ~cookie.sent
    /\ session # cookie.session
    /\ session' = cookie.session
    /\ cookie' = [cookie EXCEPT !.sent = TRUE]
    /\ UNCHANGED <<ev, calls, today, users, daily_word, game_logs, resp,
                   dbFailures, posts>>

ReplayNext ==
    \/ \E input \in GuessInputs : \E pick \in Picks({}) : Guess(input, {}, pick)
    \/ Index(TRUE)
    \/ Register(TRUE, TRUE)
    \/ Keep
    \/ Resend

SpecReplay == Init /\ [][ReplayNext]_vars

\* C24: a guess request that carries the same pre-terminal session as an
\* earlier request whose terminal transition is already in the outcome log
\* writes no second record.
C24_NoDuplicateOutcome ==
    [][(/\ GuessStep
        /\ cookie.kept /\ cookie' = cookie
        /\ session = cookie.session
        /\ game_logs # <<>>
        /\ LastOf(game_logs).username = session.username
        /\ LastOf(game_logs).guesses = Len(session.guesses) + 1) =>
          game_logs' = game_logs]_vars

----------------------------------------------------------------------------
(* Claims about the first guess and the frame of GET /, checked under Spec *)

\* the errors of a guess request that are not about the state of the game:
\* the store could not be reached, or the guess itself was rejected
Excuses == {"database_error"} \cup RejectionErrors

\* C25: a valid first guess on a session in NotStarted state, also one that
\* GET / never initialised, is accepted: scored and appended as the first
\* record.
C25_FirstGuessAccepted ==
    [][(/\ GuessStep
        /\ session.guesses = <<>>
        /\ ~session.game_over
        /\ resp'.error \notin Excuses) =>
          /\ resp'.status = "ok"
          /\ session'.guesses = <<[guess |-> resp'.guess, result |-> resp'.result]>>]_vars

\* C29: on the first day (no rollover), GET / leaves the guess history, the
\* terminal flag and the hard-mode flag as they were, in every state.
C29_IndexIsPureRead ==
    [][(IndexStep /\ today = 1) =>
          /\ session'.guesses = session.guesses
          /\ session'.game_over = session.game_over
          /\ session'.hard_mode = session.hard_mode]_vars

\* C30: in hard mode the secret the recorded guesses were scored against
\* passes the hard-mode check, whatever those guesses were.
C30_SecretPassesHardMode ==
    \A T \in Catalog :
        ( /\ session.hard_mode
          /\ ~session.game_over
          /\ session.guesses # <<>>
          /\ Len(T) = WordLen
          /\ ScoredAgainst(session.guesses, T) )
        => HardModeViolation(session.guesses, T) = None

----------------------------------------------------------------------------
(* A scoring example, checked under SpecEval *)

TraceOnCrane == Scored /\ ev.secret = CRANE /\ ev.guess = TRACE

\* C26, as the code has it: the guess TRACE scored against the secret CRANE
\* yields [absent, correct, correct, present, correct] (R, A and E stand at
\* the secret's positions, C stands elsewhere in it, T is not in it).
C26_TraceAgainstCrane ==
    TraceOnCrane =>
        Verdicts(ev.result) = <<"absent", "correct", "correct", "present", "correct">>

\* TRACE has been scored against CRANE
C26_Witness ==
    /\ TraceOnCrane
    /\ ev.result[1] = "gray"
    /\ ev.result[4] = "yellow"

\* C26, as stated: the guess TRACE scored against the secret CRANE yields
\* [absent, present, present, present, correct].
C26_AsStated ==
    TraceOnCrane =>
        Verdicts(ev.result) = <<"absent", "present", "present", "present", "correct">>

----------------------------------------------------------------------------
(* Claims about what the hard-mode check reads, checked under Spec *)

\* the marks of the history, as (record, position) pairs in the order the
\* records were made and read
MarksOf(history, x) ==
    {p \in (DOMAIN history) \X (1..WordLen) :
        /\ history[p[1]].guess[p[2]] = x
        /\ history[p[1]].result[p[2]] \in {"green", "yellow"}}

Before(p, q) == p[1] < q[1] \/ (p[1] = q[1] /\ p[2] <= q[2])

FirstMark(history, x) ==
    CHOOSE p \in MarksOf(history, x) : \A q \in MarksOf(history, x) : Before(p, q)

\* the decision as a function of the history and the candidate alone: None
\* when no letter is lacking, otherwise the lacking letter revealed first
DecisionOf(history, cand) ==
    LET lacking == {x \in RequiredLetters(history) : Lacks(history, cand, x)}
    IN  IF lacking = {} THEN None
        ELSE CHOOSE x \in lacking :
                \A y \in lacking : Before(FirstMark(history, x), FirstMark(history, y))

\* the hard-mode decision of a guess outcome: the cited letter, or None
Cited(out) == IF out.resp.error = "hard_mode" THEN out.resp.letter ELSE None

\* the request got as far as the hard-mode check
ReachedCheck(out) ==
    out.resp.error \notin {"database_error", "already_played", "game_is_over",
                           "invalid_word"}

\* C27: the hard-mode decision and the letter it cites are a function of the
\* candidate and the recorded guesses alone: the same state served with two
\* different secrets gets the same decision, the one that function gives.
C27_DecisionIgnoresSecret ==
    (session.hard_mode /\ session.guesses # <<>> /\ ~session.game_over) =>
        \A input \in GuessInputs, pick \in AvailableWords(SelectorList) :
            \A out \in {GuessOutcome(input, {2}, pick)} :
                ReachedCheck(out) =>
                    Cited(out) = DecisionOf(session.guesses, Upper(input))

\* a hard-mode session on which the day's pinned word itself lacks a
\* revealed letter: the check has just rejected a guess citing that letter
C27_Witness ==
    /\ session.hard_mode
    /\ ~session.game_over
    /\ resp.op = "guess"
    /\ resp.error = "hard_mode"
    /\ resp.target # NoWord
    /\ DecisionOf(session.guesses, resp.target) = resp.letter

----------------------------------------------------------------------------
(* Claims about the replay override, checked under Spec *)

Fresh(s) == s.guesses = <<>> /\ ~s.game_over /\ ~s.hard_mode

\* the request body passes the length and word-list test of the session
ValidFor(s, input) ==
    Len(Upper(input)) = WordLen /\ Upper(input) \in AvailableWords(SessWordList(s))

\* with the store reachable every valid guess is accepted as the first
\* record, and is scored against the word pinned for today when there is one
ReplayOpen ==
    \A input \in GuessInputs, pick \in Picks({}) :
        \A out \in {GuessOutcome(input, {}, pick)} :
            ValidFor(session, input) =>
                /\ out.resp.status = "ok"
                /\ out.session.guesses =
                      <<[guess |-> Upper(input), result |-> out.resp.result]>>
                /\ daily_word[<<today, SelectorList>>] # NoWord =>
                      /\ out.resp.target = daily_word[<<today, SelectorList>>]
                      /\ out.resp.result = Evaluate(Upper(input), out.resp.target)
                      /\ out.daily_word = daily_word

\* C28: 'Clear Session', on a finished session as on any other, leaves a
\* fresh session (no guesses, not terminal, hard mode off) on which valid
\* guesses are accepted again the same day, scored against the word pinned
\* for the day.
C28_ClearSessionReplays ==
    resp.op = "clear_session" => (Fresh(session) /\ ReplayOpen)

\* the session was cleared on a day whose game had been played: the word is
\* pinned and a valid guess is open
C28_Witness ==
    /\ resp.op = "clear_session"
    /\ Fresh(session)
    /\ daily_word[<<today, SelectorList>>] # NoWord
    /\ ReplayOpen
    /\ \E input \in GuessInputs : ValidFor(session, input)

----------------------------------------------------------------------------
(* Settings, rejection order and outcome records *)

\* C31: a session with no recorded guess that is not finished can change
\* hard mode: POST /toggle_hard_mode is accepted and flips the flag, also
\* after GET / has been served for the session today.
C31_ToggleOpenBeforeFirstGuess ==
    [][(ToggleStep /\ session.guesses = <<>> /\ ~session.game_over) =>
          /\ resp'.status = "ok"
          /\ session'.hard_mode = ~session.hard_mode]_vars

\* the letters of the history that the candidate holds fewer times than
\* they were revealed
Lacking(history, cand) ==
    {x \in RequiredLetters(history) : Lacks(history, cand, x)}

\* C32: a hard-mode rejection names one letter, the lacking letter that was
\* revealed first in the history (record order, then position order); the
\* lacking letters revealed after it are not reported.
C32_FirstViolatedLetterCited ==
    (session.hard_mode /\ session.guesses # <<>> /\ ~session.game_over) =>
        \A input \in GuessInputs, pick \in Picks({}) :
            \A out \in {GuessOutcome(input, {}, pick)} :
                out.resp.error = "hard_mode" =>
                    /\ out.resp.letter \in Lacking(session.guesses, Upper(input))
                    /\ \A y \in Lacking(session.guesses, Upper(input)) :
                          Before(FirstMark(session.guesses, out.resp.letter),
                                 FirstMark(session.guesses, y))

\* a guess that lacks several revealed letters has just been rejected, and
\* the rejection cites the one revealed first
C32_Witness ==
    /\ session.hard_mode
    /\ resp.op = "guess"
    /\ resp.error = "hard_mode"
    /\ \E input \in GuessInputs :
          /\ ValidFor(session, input)
          /\ Cardinality(Lacking(session.guesses, Upper(input))) >= 2
          /\ DecisionOf(session.guesses, Upper(input)) = resp.letter
          /\ \E y \in Lacking(session.guesses, Upper(input)) : y # resp.letter

----------------------------------------------------------------------------
(* The order of the present marks, checked under SpecEval *)

\* C33: among the positions of a guess that hold the same letter and are
\* not correct, present marks are claimed from left to right: when i < j
\* hold the same letter, neither is green and j is yellow, i is yellow.
C33_PresentLeftToRight ==
    Scored =>
        \A i, j \in 1..WordLen :
            ( /\ i < j
              /\ ev.guess[i] = ev.guess[j]
              /\ ev.result[i] # "green"
              /\ ev.result[j] # "green"
              /\ ev.result[j] = "yellow" ) => ev.result[i] = "yellow"

\* a scored pair where the secret holds fewer of a letter than the guess
\* holds at positions that are not exact matches: the left occurrence took
\* the last present mark and a later one is left absent
C33_Witness ==
    /\ Scored
    /\ \E i, j \in 1..WordLen :
          /\ i < j
          /\ ev.guess[i] = ev.guess[j]
          /\ ev.guess[i] # ev.secret[i]
          /\ ev.guess[j] # ev.secret[j]
          /\ ev.result[i] = "yellow"
          /\ ev.result[j] = "gray"
          /\ CountIn(ev.secret, ev.guess[i]) < CountIn(ev.guess, ev.guess[i])

----------------------------------------------------------------------------
(* The order of the rejections of a guess, checked under Spec *)

\* the rejection the order "finished, validity, hard mode" gives the request
\* body `input` on the session, or "none" when the guess is to be accepted
RejectionDue(input) ==
    IF session.game_over
    THEN IF session.last_played_date = today THEN "already_played" ELSE "game_is_over"
    ELSE IF ~ValidFor(session, input) THEN "invalid_word"
    ELSE IF session.hard_mode /\ Lacking(session.guesses, Upper(input)) # {}
         THEN "hard_mode"
    ELSE "none"

\* C34: with the users lookup answering, the rejections of a guess are
\* decided in the order finished session (already-played when the
\* last-played date is today, game-is-over otherwise), word validity, hard
\* mode: every request body on a terminal session gets the finished-session
\* error, and an invalid word is not reported as a hard-mode violation.
C34_RejectionOrder ==
    (session.game_over \/ (session.hard_mode /\ session.guesses # <<>>)) =>
        \A input \in GuessInputs, pick \in Picks({}) :
            \A out \in {GuessOutcome(input, {}, pick)} :
                /\ RejectionDue(input) # "none" => out.resp.error = RejectionDue(input)
                /\ out.resp.error \in RejectionErrors \cup {"already_played", "game_is_over"}
                      => out.resp.error = RejectionDue(input)

\* a terminal session in hard mode has answered a guess with a
\* finished-session error, while a request body exists that is also invalid
\* and also lacks revealed letters
C34_Witness ==
    /\ session.game_over
    /\ session.hard_mode
    /\ resp.op = "guess"
    /\ resp.error \in {"already_played", "game_is_over"}
    /\ \E input \in GuessInputs :
          /\ ~ValidFor(session, input)
          /\ Lacking(session.guesses, Upper(input)) # {}
          /\ RejectionDue(input) = resp.error

----------------------------------------------------------------------------
(* The game played by one registered user from two browsers, each holding  *)
(* a session cookie of its own: `session` is the session of the browser    *)
(* whose request is served, cookie.session the session the other browser   *)
(* holds.                                                                   *)

\* the session the login form leaves (lines 404-408)
LoggedIn ==
    [EmptySession EXCEPT !.username = "member", !.user_type = "Member",
                         !.word_list = "words.txt"]

\* the user has registered and is logged in on both browsers
TwoSessionsInit ==
    /\ ev = EvIdle
    /\ calls = CallsIdle
    /\ today = 1
    /\ session = LoggedIn
    /\ cookie = [kept |-> TRUE, sent |-> FALSE, session |-> LoggedIn]
    /\ users = [u \in Usernames |->
                   IF u = "member" THEN UserRow("Member", "words.txt") ELSE NoUser]
    /\ daily_word = EmptyDailyWord
    /\ game_logs = <<>>
    /\ resp = NoResp
    /\ dbFailures = 0
    /\ posts = 0

\* the next request comes from the other browser
Switch ==
    /\ session # cookie.session
    /\ session' = cookie.session
    /\ cookie' = [cookie EXCEPT !.session = session]
    /\ UNCHANGED <<ev, calls, today, users, daily_word, game_logs, resp,
                   dbFailures, posts>>

TwoSessionsNext ==
    \/ \E input \in GuessInputs : \E pick \in Picks({}) : Guess(input, {}, pick)
    \/ Index(TRUE)
    \/ \E wl \in WordLists : ChangeWordList(TRUE, TRUE, wl)
    \/ Switch

SpecTwoSessions == TwoSessionsInit /\ [][TwoSessionsNext]_vars

\* the word-list whose dictionary validates the guess: the local word_list,
\* read from the session as the request arrives (line 616)
ValidationList == SessWordList(session)

\* C35: within one guess request the dictionary the guess is validated
\* against and the word-list the secret is taken from are the same, also
\* when the stored preference of the user was changed through another
\* session since this session's previous request.
C35_OneWordListPerRequest ==
    [][(GuessStep /\ resp'.target # NoWord) =>
          /\ ValidationList = SelectorList
          /\ resp'.target \in AvailableWords(ValidationList)]_vars

----------------------------------------------------------------------------
(* The outcome records, checked under Spec *)

\* a step that writes to the outcome log
LogStep == game_logs' # game_logs

\* C36: every outcome record written has win = 1 exactly when the final
\* guess of the session equalled the secret, and a guess count equal to the
\* number of records of the session at the terminal transition, between 1
\* and 6; every loss record has guess count 6.
C36_OutcomeRecordFields ==
    [][LogStep =>
          /\ GuessStep
          /\ FinishStep
          /\ Len(game_logs') = Len(game_logs) + 1
          /\ game_logs' = Append(game_logs, LastOf(game_logs'))
          /\ LastOf(game_logs').username = session'.username
          /\ (LastOf(game_logs').win = 1) <=> (resp'.guess = resp'.target)
          /\ LastOf(game_logs').win \in {0, 1}
          /\ LastOf(session'.guesses).guess = resp'.guess
          /\ LastOf(game_logs').guesses = Len(session'.guesses)
          /\ Len(session'.guesses) = Len(session.guesses) + 1
          /\ LastOf(game_logs').guesses \in 1..MaxGuesses
          /\ (LastOf(game_logs').win = 0 => LastOf(game_logs').guesses = MaxGuesses)]_vars

\* the log ends with the record of a game just lost at the 6th guess
C36_Witness ==
    /\ game_logs # <<>>
    /\ resp.op = "guess"
    /\ resp.game_over
    /\ resp.guess # resp.target
    /\ LastOf(game_logs).win = 0
    /\ LastOf(game_logs).guesses = MaxGuesses
    /\ Len(session.guesses) = MaxGuesses
    /\ LastOf(game_logs).username = session.username

====
